---- MODULE Spec2Model ----
(***************************************************************************)
(* Model of the Spotify now-playing feeder (main.py) and of the local      *)
(* read server (server.py).                                                *)
(*                                                                         *)
(* The feeder is one sequential process.  Its position `pc` stops at every *)
(* upstream call and at every sleep, so one step of the model is the code  *)
(* that runs between two such blocking points.  The read server is a       *)
(* second process whose only operation is GET /.                           *)
(*                                                                         *)
(* Python values: None is <<>> and a present optional value v is <<v>>.    *)
(* A context URI is the sequence of its ':'-separated segments (the result *)
(* of uri.split(":")), the empty URI being <<>>.                           *)
(***************************************************************************)
EXTENDS Integers, Sequences, FiniteSets, TLC

VARIABLES
    pc,               \* position of the feeder process
    ret,              \* the upstream call a sleep returns to
    sp,               \* NowPlayingFeeder.sp: generation of the client handle, 0 = unset
    server_data,      \* NowPlayingFeeder.server_data: the shared mutable TrackInfo
    srv_ref,          \* which object NowPlayingServer._data refers to
    last_track_uri,   \* NowPlayingFeeder._last_track_uri
    last_is_playing,  \* NowPlayingFeeder._last_is_playing
    last_metadata,    \* NowPlayingFeeder._last_metadata
    pb,               \* the playback response of the current (else the last) tick
    published,        \* the TrackInfo value last handed to NowPlayingServer.update
    pub_step,         \* TRUE iff the last feeder step called _publish_server_state
    raised,           \* what the upstream call of the last feeder step raised
    tick_failed,      \* TRUE iff an upstream call of the current tick has raised
    last_outcome,     \* how the last completed tick ended
    nothing_run,      \* consecutive failure-free nothing-playing ticks so far
    exc,              \* the exception that ended the process, if any
    sleep_for,        \* the argument of the time.sleep the feeder is in, else 0
    sd_obj,           \* identity of the object self.server_data is bound to, 0 = unbound
    handed_obj,       \* identity of the object last passed to NowPlayingServer.update
    track_published,  \* TRUE iff a track snapshot has been published so far
    tick_published,   \* TRUE iff the current (else the last) tick has published
    last_read         \* what the last GET / returned

vars == <<pc, ret, sp, server_data, srv_ref, last_track_uri, last_is_playing,
          last_metadata, pb, published, pub_step, raised, tick_failed,
          last_outcome, nothing_run, exc, sleep_for, sd_obj, handed_obj,
          track_published, tick_published, last_read>>

feeder_vars == <<pc, ret, sp, server_data, srv_ref, last_track_uri,
                 last_is_playing, last_metadata, pb, published, pub_step,
                 raised, tick_failed, last_outcome, nothing_run, exc,
                 sleep_for, sd_obj, handed_obj, track_published,
                 tick_published>>

----------------------------------------------------------------------------
(* Bounds of the model *)

MaxClients == 1         \* client handles created after the first one
MaxRetryAfter == 2      \* largest Retry-After header value the provider sends
MaxRun == 2             \* nothing_run counts up to this many ticks

(* Program constants *)

DefaultRetryAfter == 30      \* _spotify_api_call: e.headers.get("Retry-After", 30)
TickDefaultRetryAfter == 5   \* tick: e.headers.get("Retry-After", 5)
AuthRetryDelay == 5          \* _wait_for_spotify_auth: time.sleep(5)
MsPerSecond == 1000          \* // 1000
Timeout == 5                 \* Config.from_env: env_int("TIMEOUT", 5)

----------------------------------------------------------------------------
(* Python values *)

None == <<>>
Some(v) == <<v>>
Get(opt, default) == IF opt = None THEN default ELSE opt[1]
Unset == [unset |-> TRUE]     \* an attribute that has not been assigned yet

(* x or 0 for an optional integer: None and 0 are both falsy *)
OrZero(opt) == IF opt = None THEN 0 ELSE opt[1]

(* a // b, Python floor division (b > 0) *)
FloorDiv(a, b) == a \div b

(* bool(s) of an optional string *)
TruthyStr(opt) == opt # None /\ opt[1] # ""

RECURSIVE JoinFrom(_, _)
JoinFrom(names, i) ==
    IF i > Len(names) THEN ""
    ELSE IF i = Len(names) THEN names[i]
    ELSE names[i] \o ", " \o JoinFrom(names, i + 1)

(* ", ".join(names) *)
Join(names) == JoinFrom(names, 1)

(* uri.split(":")[-1] *)
LastSegment(uri) == IF uri = <<>> THEN "" ELSE uri[Len(uri)]

(* s.startswith("collection"), over the segments the model uses *)
StartsWithCollection(s) == s \in {"collection", "collections"}

(* ":collection" in uri: some segment after a ':' begins with "collection" *)
ContainsCollection(uri) ==
    \E i \in 2..Len(uri) : StartsWithCollection(uri[i])

----------------------------------------------------------------------------
(* server.py: TrackInfo *)

TrackInfo(off, playing, rl, rlt, title, artist, uri, art, dur, prog, ct, cu, cn) ==
    [is_offline |-> off, is_playing |-> playing, ratelimit |-> rl, rl_time |-> rlt,
     title |-> title, artist |-> artist, uri |-> uri, artURL |-> art,
     duration |-> dur, progress |-> prog,
     context_type |-> ct, context_uri |-> cu, context_name |-> cn]

(* The field defaults with is_offline defaulting to False *)
DefaultTrackInfo_Online ==
    TrackInfo(FALSE, FALSE, FALSE, 0, "", "", "", "", 0, 0, "", <<>>, "")

(* TrackInfo(): the field defaults *)
DefaultTrackInfo ==
    TrackInfo(TRUE, FALSE, FALSE, 0, "", "", "", "", 0, 0, "", <<>>, "")

(* NowPlayingServer.update(self, *, info): the keyword the method accepts *)
UpdateParameter == "info"

(* _publish_server_state: the keyword the feeder passes, update(TrackInfo=...) *)
UpdateKeyword == "TrackInfo"

(* NowPlayingServer.update called with one keyword argument that carries the
   feeder's TrackInfo object: self._data is rebound to that object when the
   keyword is the method's parameter; any other keyword is a TypeError, which
   leaves self._data as it was. *)
update(ref, keyword) == IF keyword = UpdateParameter THEN "shared" ELSE ref

(* The object NowPlayingServer._data refers to: the TrackInfo() made by
   NowPlayingServer.__init__ or the feeder's server_data object itself. *)
Deref(ref, sd) == IF ref = "shared" THEN sd ELSE DefaultTrackInfo

----------------------------------------------------------------------------
(* What the provider can answer *)

MsValues == {-1, 0, 245999}

RetryAfterHeaders == {None} \cup {Some(n) : n \in 1..MaxRetryAfter}

(* An item with every key present, and the items that vary one key of it *)
BaseItem ==
    [uri |-> Some("spotify:track:A"), name |-> Some("Song A"),
     artists |-> <<"X", "Y">>, duration_ms |-> Some(245999),
     album |-> Some([name |-> Some("Album A"),
                     images |-> <<"http://img/a", "http://img/b">>])]

Items ==
    {[BaseItem EXCEPT !.duration_ms = d] : d \in {None} \cup {Some(m) : m \in MsValues}}
    \cup {[BaseItem EXCEPT !.uri = None, !.name = None, !.artists = <<>>, !.album = None],
          [BaseItem EXCEPT !.uri = Some(""), !.artists = <<"Z">>,
                           !.album = Some([name |-> None, images |-> <<>>])]}

Contexts ==
    {None,
     Some([type |-> Some("playlist"), uri |-> Some(<<"spotify", "playlist", "XYZ">>)]),
     Some([type |-> Some("album"), uri |-> Some(<<"spotify", "album", "ABC">>)]),
     Some([type |-> Some("collection"), uri |-> Some(<<"spotify", "user", "u", "collection">>)]),
     Some([type |-> None, uri |-> Some(<<"spotify", "user", "u", "collections">>)]),
     Some([type |-> Some("playlist"), uri |-> Some(<<"spotify", "user", "u", "collection", "XYZ">>)]),
     Some([type |-> Some("artist"), uri |-> Some(<<"spotify", "artist", "Q">>)]),
     Some([type |-> Some("playlist"), uri |-> None])}

(* A playback object with an active track, and the objects that vary one
   part of it *)
BasePlayback ==
    [is_playing |-> Some(TRUE), progress_ms |-> Some(0),
     item |-> Some(BaseItem), context |-> None]

(* sp.current_playback(): None, or the playback object *)
PlaybackResponses ==
    {None}
    \cup {Some([BasePlayback EXCEPT !.item = Some(i), !.progress_ms = Some(m)])
            : i \in Items, m \in MsValues}
    \cup {Some([BasePlayback EXCEPT !.context = cx]) : cx \in Contexts}
    \cup {Some([BasePlayback EXCEPT !.is_playing = ip]) : ip \in {None, Some(FALSE)}}
    \cup {Some([BasePlayback EXCEPT !.progress_ms = None]),
          Some([BasePlayback EXCEPT !.item = None])}

(* sp.playlist(id) / sp.album(id): the object's "name" key, or no such key *)
LookupResponses(id) == {Some([name |-> Some("Name of " \o id)]), Some([name |-> None])}

(* What one upstream call does: it returns, or raises SpotifyException with
   status 429 ("rl") or another status ("api"), a
   requests.exceptions.RequestException ("net"), or any other Exception. *)
Failures ==
    {[k |-> "rl", retry |-> h] : h \in RetryAfterHeaders}
    \cup {[k |-> "api"], [k |-> "net"], [k |-> "other"]}

----------------------------------------------------------------------------
(* main.py: _fetch_playback *)

(* not pb or pb.get("progress_ms") is None or not pb.get("item") *)
NothingPlaying(r) ==
    IF r = None THEN TRUE
    ELSE IF r[1].progress_ms = None THEN TRUE
    ELSE r[1].item = None

(* context = pb.get("context") or {}; context.get("type") or "" *)
ContextType(r) ==
    IF r[1].context = None THEN "" ELSE Get(r[1].context[1].type, "")

(* context.get("uri") or "" *)
ContextUri(r) ==
    IF r[1].context = None THEN <<>> ELSE Get(r[1].context[1].uri, <<>>)

(* The branch of the context-name resolution: which lookup the tick calls *)
LookupCall(r) ==
    IF ContextType(r) = "playlist" /\ ContextUri(r) # <<>> THEN "playlist"
    ELSE IF ContextType(r) = "album" /\ ContextUri(r) # <<>> THEN "album"
    ELSE "none"

(* The third branch testing the reported type instead of the URI *)
IsCollection_ByType(r) ==
    /\ LookupCall(r) = "none"
    /\ ContextUri(r) # <<>>
    /\ ContextType(r) = "collection"

(* The third branch: the liked-songs pseudo-context *)
IsCollection(r) ==
    /\ LookupCall(r) = "none"
    /\ ContextUri(r) # <<>>
    /\ ContainsCollection(ContextUri(r))

(* ((item.get("album", {}) or {}).get("images") or [{}])[0].get("url", "") *)
AlbumImg(item) ==
    IF item.album = None \/ item.album[1].images = <<>> THEN ""
    ELSE item.album[1].images[1]

(* (item.get("album", {}) or {}).get("name", "") *)
AlbumName(item) ==
    IF item.album = None THEN "" ELSE Get(item.album[1].name, "")

(* (ms or 0) // 1000 *)
Seconds(ms) == FloorDiv(OrZero(ms), MsPerSecond)

(* The dict _fetch_playback returns for a response with an active track;
   looked_up is the name the playlist/album lookup produced, None when the
   lookup was not made or raised. *)
FetchedData(r, looked_up) ==
    LET item == r[1].item[1] IN
    [is_playing |-> Get(r[1].is_playing, FALSE),
     uri |-> Get(item.uri, ""),
     title |-> Get(item.name, "Unknown"),
     artist |-> Join(item.artists),
     duration |-> Seconds(item.duration_ms),
     progress |-> Seconds(r[1].progress_ms),
     album_name |-> AlbumName(item),
     album_img |-> AlbumImg(item),
     context_type |-> IF IsCollection(r) THEN "user_collection" ELSE ContextType(r),
     context_uri |-> ContextUri(r),
     context_name |-> IF IsCollection(r) THEN "Liked Songs" ELSE Get(looked_up, "")]

(* playlist.get("name", "") on what the lookup returned *)
LookedUpName(obj) == Some(Get(obj[1].name, ""))

----------------------------------------------------------------------------
(* main.py: the server state helpers.  Each one assigns fields of the one
   shared TrackInfo object and then calls _publish_server_state. *)

(* _clear_server_data without the title and artist assignments *)
ClearedData_KeepsTitle(sd) ==
    [sd EXCEPT !.is_offline = TRUE, !.is_playing = FALSE, !.ratelimit = FALSE,
               !.rl_time = 0, !.uri = "",
               !.artURL = "", !.duration = 0, !.progress = 0,
               !.context_type = "", !.context_uri = <<>>, !.context_name = ""]

(* _clear_server_data: the field assignments *)
ClearedData(sd) ==
    [sd EXCEPT !.is_offline = TRUE, !.is_playing = FALSE, !.ratelimit = FALSE,
               !.rl_time = 0, !.title = "", !.artist = "", !.uri = "",
               !.artURL = "", !.duration = 0, !.progress = 0,
               !.context_type = "", !.context_uri = <<>>, !.context_name = ""]

(* _set_ratelimit_state without the is_playing assignment *)
RatelimitData_KeepsPlaying(sd, retry_after) ==
    [sd EXCEPT !.is_offline = FALSE, !.ratelimit = TRUE,
               !.rl_time = retry_after]

(* _set_ratelimit_state: the field assignments *)
RatelimitData(sd, retry_after) ==
    [sd EXCEPT !.is_offline = FALSE, !.is_playing = FALSE, !.ratelimit = TRUE,
               !.rl_time = retry_after]

(* tick: "Update shared TrackInfo" *)
TrackData(sd, data) ==
    [sd EXCEPT !.is_offline = FALSE, !.is_playing = data.is_playing,
               !.ratelimit = FALSE, !.rl_time = 0, !.title = data.title,
               !.artist = data.artist, !.uri = data.uri,
               !.artURL = data.album_img, !.duration = data.duration,
               !.progress = data.progress,
               !.context_type = data.context_type,
               !.context_uri = data.context_uri,
               !.context_name = data.context_name]

(* _publish_server_state, after server_data has become sd *)
Publish(sd) ==
    /\ server_data' = sd
    /\ sd_obj' = sd_obj
    /\ published' = sd
    /\ handed_obj' = sd_obj
    /\ srv_ref' = update(srv_ref, UpdateKeyword)
    /\ pub_step' = TRUE
    /\ track_published' = (track_published \/ (~sd.is_offline /\ ~sd.ratelimit))
    /\ tick_published' = TRUE

(* A step of the feeder that does not reach _publish_server_state *)
NoPublish ==
    /\ UNCHANGED <<server_data, sd_obj, published, handed_obj, srv_ref,
                   track_published, tick_published>>
    /\ pub_step' = FALSE

----------------------------------------------------------------------------
(* The state when the process starts: nothing of NowPlayingFeeder.__init__
   has run beyond the start of _wait_for_spotify_auth. *)

Init ==
    /\ pc = "init_probe"
    /\ ret = "none"
    /\ sp = 0
    /\ server_data = Unset
    /\ srv_ref = "none"
    /\ last_track_uri = None
    /\ last_is_playing = None
    /\ last_metadata = None
    /\ pb = None
    /\ published = Unset
    /\ pub_step = FALSE
    /\ raised = None
    /\ tick_failed = FALSE
    /\ last_outcome = [kind |-> "none", failed |-> FALSE]
    /\ nothing_run = 0
    /\ exc = [type |-> "none", at |-> "none"]
    /\ sleep_for = 0
    /\ sd_obj = 0
    /\ handed_obj = 0
    /\ track_published = FALSE
    /\ tick_published = FALSE
    /\ last_read = Unset

(* The positions at which _wait_for_spotify_auth makes its probe call *)
ProbePositions == {"init_probe", "reauth_probe"}

RateLimitFailures == {e \in Failures : e.k = "rl"}
OtherFailures == {e \in Failures : e.k # "rl"}

(* The upstream call made at the current position raises e *)
Raises(e) == raised' = Some([e |-> e, at |-> pc])

(* An exception leaves the main module: the process ends *)
Crash(exception) ==
    /\ pc' = "crashed"
    /\ exc' = [type |-> exception, at |-> pc]
    /\ NoPublish
    /\ UNCHANGED <<ret, sp, last_track_uri, last_is_playing, last_metadata, pb,
                   tick_failed, last_outcome, nothing_run, sleep_for, last_read>>

(* tick() returns and the main loop enters time.sleep(cfg.timeout) *)
TickReturn(kind, failed) ==
    /\ pc' = "idle"
    /\ sleep_for' = Timeout
    /\ last_outcome' = [kind |-> kind, failed |-> failed]
    /\ nothing_run' = IF kind = "nothing" /\ ~failed
                      THEN (IF nothing_run < MaxRun THEN nothing_run + 1 ELSE MaxRun)
                      ELSE 0
    /\ tick_failed' = failed
    /\ UNCHANGED <<ret, exc, last_read>>

(* _spotify_api_call, the 429 branch up to time.sleep(retry_after), for the
   call made at position `call`; server_data exists. *)
RateLimited(call, e) ==
    LET retry_after == Get(e.retry, DefaultRetryAfter) IN
    /\ Publish(RatelimitData(server_data, retry_after))
    /\ pc' = "rl_sleep"
    /\ ret' = call
    /\ sleep_for' = retry_after
    /\ tick_failed' = (call # "init_probe")
    /\ UNCHANGED <<sp, last_track_uri, last_is_playing, last_metadata, pb,
                   last_outcome, nothing_run, exc, last_read>>

(* _spotify_api_call going back to the call without _clear_server_data *)
RateLimitWaitElapsed_NoClear ==
    /\ pc \in {"rl_sleep", "tick_rl_sleep"}
    /\ raised' = None
    /\ NoPublish
    /\ pc' = ret
    /\ sleep_for' = 0
    /\ UNCHANGED <<ret, sp, last_track_uri, last_is_playing, last_metadata, pb,
                   tick_failed, last_outcome, nothing_run, exc, last_read>>

(* _spotify_api_call, after time.sleep(retry_after): clear, then call again;
   and the sleep of tick's own 429 handler, after which tick returns. *)
RateLimitWaitElapsed ==
    /\ pc \in {"rl_sleep", "tick_rl_sleep"}
    /\ raised' = None
    /\ IF pc = "rl_sleep"
       THEN /\ Publish(ClearedData(server_data))
            /\ pc' = ret
            /\ sleep_for' = 0
            /\ UNCHANGED <<ret, sp, last_track_uri, last_is_playing,
                           last_metadata, pb, tick_failed, last_outcome,
                           nothing_run, exc, last_read>>
       ELSE /\ NoPublish
            /\ TickReturn("error", TRUE)
            /\ UNCHANGED <<sp, last_track_uri, last_is_playing, last_metadata, pb>>

----------------------------------------------------------------------------
(* main.py: _wait_for_spotify_auth, called by __init__ and by tick's handlers *)

(* The rest of __init__ once _wait_for_spotify_auth has returned, up to the
   first playback fetch of the main loop. *)
InitRest ==
    LET sd == TrackInfo(TRUE, FALSE, FALSE, 0, "", "", "", "", 0, 0, "", <<>>, "") IN
    /\ sp' = 1
    /\ last_track_uri' = None
    /\ last_is_playing' = None
    /\ last_metadata' = None
    /\ server_data' = sd
    /\ sd_obj' = 1
    /\ published' = sd
    /\ handed_obj' = 1
    /\ srv_ref' = update("default", UpdateKeyword)
    /\ pub_step' = TRUE
    /\ track_published' = FALSE
    /\ tick_published' = FALSE
    /\ pc' = "fetch"
    /\ tick_failed' = FALSE
    /\ UNCHANGED <<ret, pb, last_outcome, nothing_run, exc, sleep_for, last_read>>

(* The rest of tick's handler once _wait_for_spotify_auth has returned:
   self.sp = ...; self._clear_server_data() *)
ReauthRest ==
    /\ sp' = sp + 1
    /\ Publish(ClearedData(server_data))
    /\ TickReturn("error", TRUE)
    /\ UNCHANGED <<last_track_uri, last_is_playing, last_metadata, pb>>

(* The probe call returns *)
ProbeReturns ==
    /\ pc \in ProbePositions
    /\ raised' = None
    /\ IF pc = "init_probe" THEN InitRest ELSE ReauthRest

(* The probe call raises 429: _spotify_api_call publishes the rate-limit
   state, which needs self.server_data; __init__ assigns it only after
   _wait_for_spotify_auth has returned, so at startup this is an
   AttributeError that no handler catches. *)
ProbeRateLimited ==
    /\ pc \in ProbePositions
    /\ \E e \in RateLimitFailures :
          /\ Raises(e)
          /\ IF server_data = Unset THEN Crash("AttributeError")
             ELSE RateLimited(pc, e)

(* The probe call raises SpotifyException (not 429) or RequestException:
   time.sleep(5) and try again. *)
ProbeUnreachable ==
    /\ pc \in ProbePositions
    /\ \E e \in {f \in OtherFailures : f.k \in {"api", "net"}} :
          /\ Raises(e)
          /\ pc' = "auth_sleep"
          /\ ret' = pc
          /\ sleep_for' = AuthRetryDelay
          /\ NoPublish
          /\ UNCHANGED <<sp, last_track_uri, last_is_playing, last_metadata, pb,
                         tick_failed, last_outcome, nothing_run, exc, last_read>>

(* The probe call raises any other exception: _wait_for_spotify_auth does not
   catch it, and neither does __init__ nor the except clause of tick that
   called it. *)
ProbeRaises ==
    /\ pc \in ProbePositions
    /\ \E e \in {f \in OtherFailures : f.k = "other"} :
          /\ Raises(e)
          /\ Crash("Exception")

AuthDelayElapsed ==
    /\ pc = "auth_sleep"
    /\ pc' = ret
    /\ sleep_for' = 0
    /\ raised' = None
    /\ NoPublish
    /\ UNCHANGED <<ret, sp, last_track_uri, last_is_playing, last_metadata, pb,
                   tick_failed, last_outcome, nothing_run, exc, last_read>>

----------------------------------------------------------------------------
(* main.py: tick *)

(* The main loop's time.sleep(cfg.timeout) ends and tick() makes its
   playback fetch. *)
IntervalElapsed ==
    /\ pc = "idle"
    /\ pc' = "fetch"
    /\ pb' = None
    /\ sleep_for' = 0
    /\ raised' = None
    /\ tick_failed' = FALSE
    /\ UNCHANGED <<server_data, sd_obj, published, handed_obj, srv_ref,
                   track_published>>
    /\ pub_step' = FALSE
    /\ tick_published' = FALSE
    /\ UNCHANGED <<ret, sp, last_track_uri, last_is_playing, last_metadata,
                   last_outcome, nothing_run, exc, last_read>>

(* The nothing-playing branch without the test of _last_track_uri *)
TickNothing_AlwaysClears ==
    /\ last_track_uri' = None
    /\ last_is_playing' = None
    /\ last_metadata' = None
    /\ Publish(ClearedData(server_data))
    /\ TickReturn("nothing", tick_failed)
    /\ UNCHANGED sp

(* if not data: ... return *)
TickNothing ==
    /\ IF TruthyStr(last_track_uri)
       THEN /\ last_track_uri' = None
            /\ last_is_playing' = None
            /\ last_metadata' = None
            /\ Publish(ClearedData(server_data))
       ELSE /\ UNCHANGED <<last_track_uri, last_is_playing, last_metadata>>
            /\ NoPublish
    /\ TickReturn("nothing", tick_failed)
    /\ UNCHANGED sp

(* The rest of the try block for a normalized dict *)
TickTrack(data, failed) ==
    /\ Publish(TrackData(server_data, data))
    /\ last_track_uri' = Some(data.uri)
    /\ last_is_playing' = Some(data.is_playing)
    /\ last_metadata' = Some(data)
    /\ TickReturn("track", failed)
    /\ UNCHANGED sp

(* The handler starts _wait_for_spotify_auth, which makes its probe call *)
Reauthenticate ==
    /\ pc' = "reauth_probe"
    /\ tick_failed' = TRUE
    /\ NoPublish
    /\ UNCHANGED <<ret, sp, last_track_uri, last_is_playing, last_metadata, pb,
                   last_outcome, nothing_run, exc, sleep_for, last_read>>

(* The except clauses of tick with the last one clearing the server data *)
TickExcept_ClearsOnAny(e) ==
    CASE e.k \in {"api", "net"} -> Reauthenticate
      [] OTHER ->
            /\ Publish(ClearedData(server_data))
            /\ TickReturn("error", TRUE)
            /\ UNCHANGED <<sp, last_track_uri, last_is_playing, last_metadata, pb>>

(* The except clauses of tick, for an exception e that left the try block *)
TickExcept(e) ==
    CASE e.k = "rl" ->
            LET retry_after == Get(e.retry, TickDefaultRetryAfter) IN
            /\ Publish(RatelimitData(server_data, retry_after))
            /\ pc' = "tick_rl_sleep"
            /\ sleep_for' = retry_after
            /\ tick_failed' = TRUE
            /\ UNCHANGED <<ret, sp, last_track_uri, last_is_playing,
                           last_metadata, pb, last_outcome, nothing_run, exc,
                           last_read>>
      [] e.k = "api" -> Reauthenticate
      [] e.k = "net" -> Reauthenticate
      [] OTHER ->
            /\ NoPublish
            /\ TickReturn("error", TRUE)
            /\ UNCHANGED <<sp, last_track_uri, last_is_playing, last_metadata, pb>>

(* current_playback returns a response with nothing playing *)
FetchNothing ==
    /\ pc = "fetch"
    /\ raised' = None
    /\ \E r \in PlaybackResponses :
          /\ NothingPlaying(r)
          /\ pb' = r
          /\ TickNothing

(* current_playback returns an active track whose context needs no lookup *)
FetchTrack ==
    /\ pc = "fetch"
    /\ raised' = None
    /\ \E r \in PlaybackResponses :
          /\ ~NothingPlaying(r)
          /\ LookupCall(r) = "none"
          /\ pb' = r
          /\ TickTrack(FetchedData(r, None), tick_failed)

(* current_playback returns an active track in a playlist or album: the tick
   goes on to sp.playlist(id) or sp.album(id) *)
FetchThenLookup ==
    /\ pc = "fetch"
    /\ raised' = None
    /\ \E r \in PlaybackResponses :
          /\ ~NothingPlaying(r)
          /\ LookupCall(r) # "none"
          /\ pb' = r
    /\ pc' = "lookup"
    /\ NoPublish
    /\ UNCHANGED <<ret, sp, last_track_uri, last_is_playing, last_metadata,
                   tick_failed, last_outcome, nothing_run, exc, sleep_for,
                   last_read>>

(* current_playback raises 429 inside _spotify_api_call *)
FetchRateLimited ==
    /\ pc = "fetch"
    /\ \E e \in RateLimitFailures :
          /\ Raises(e)
          /\ RateLimited("fetch", e)

(* current_playback raises anything else: _spotify_api_call re-raises it and
   it reaches the except clauses of tick *)
FetchRaises ==
    /\ pc = "fetch"
    /\ \E e \in OtherFailures :
          /\ e.k \in {"api", "net"} => sp <= MaxClients
          /\ Raises(e)
          /\ TickExcept(e)

(* sp.playlist(id) / sp.album(id) returns *)
LookupReturns ==
    /\ pc = "lookup"
    /\ raised' = None
    /\ \E obj \in LookupResponses(LastSegment(ContextUri(pb))) :
          TickTrack(FetchedData(pb, LookedUpName(obj)), tick_failed)
    /\ UNCHANGED pb

(* The lookup raises 429 inside _spotify_api_call *)
LookupRateLimited ==
    /\ pc = "lookup"
    /\ \E e \in RateLimitFailures :
          /\ Raises(e)
          /\ RateLimited("lookup", e)

(* The lookup without the try/except around the context resolution: the
   exception reaches the except clauses of tick *)
LookupRaises_Propagates ==
    /\ pc = "lookup"
    /\ \E e \in OtherFailures :
          /\ e.k \in {"api", "net"} => sp <= MaxClients
          /\ Raises(e)
          /\ TickExcept(e)

(* The lookup raises anything else: "except Exception" around the context
   resolution logs it and context_name stays "" *)
LookupRaises ==
    /\ pc = "lookup"
    /\ \E e \in OtherFailures :
          /\ Raises(e)
          /\ TickTrack(FetchedData(pb, None), TRUE)
    /\ UNCHANGED pb

----------------------------------------------------------------------------
(* server.py: GET / *)

get_now_playing ==
    /\ srv_ref # "none"
    /\ pc # "crashed"
    /\ last_read' = Deref(srv_ref, server_data)
    /\ UNCHANGED feeder_vars

----------------------------------------------------------------------------

Next ==
    \/ ProbeReturns
    \/ ProbeRateLimited
    \/ ProbeUnreachable
    \/ ProbeRaises
    \/ AuthDelayElapsed
    \/ RateLimitWaitElapsed
    \/ IntervalElapsed
    \/ FetchNothing
    \/ FetchTrack
    \/ FetchThenLookup
    \/ FetchRateLimited
    \/ FetchRaises
    \/ LookupReturns
    \/ LookupRateLimited
    \/ LookupRaises
    \/ get_now_playing

Spec == Init /\ [][Next]_vars

(* The steps of the feeder thread *)
FeederNext ==
    \/ ProbeReturns
    \/ ProbeRateLimited
    \/ ProbeUnreachable
    \/ ProbeRaises
    \/ AuthDelayElapsed
    \/ RateLimitWaitElapsed
    \/ IntervalElapsed
    \/ FetchNothing
    \/ FetchTrack
    \/ FetchThenLookup
    \/ FetchRateLimited
    \/ FetchRaises
    \/ LookupReturns
    \/ LookupRateLimited
    \/ LookupRaises

(* The feeder thread keeps running: every sleep ends and every upstream call
   returns or raises.  Nothing makes a call succeed. *)
FairSpec == Spec /\ WF_vars(FeederNext)

----------------------------------------------------------------------------
(* Properties.  "Published" is the TrackInfo value the feeder hands to
   _publish_server_state; what GET / serves is Deref(srv_ref, server_data). *)

(* Every field but is_offline has its empty or zero value *)
AllEmpty(s) ==
    /\ s.is_playing = FALSE
    /\ s.ratelimit = FALSE
    /\ s.rl_time = 0
    /\ s.title = ""
    /\ s.artist = ""
    /\ s.uri = ""
    /\ s.artURL = ""
    /\ s.duration = 0
    /\ s.progress = 0
    /\ s.context_type = ""
    /\ s.context_uri = <<>>
    /\ s.context_name = ""

(* tick() has just returned after publishing a track *)
TrackTickDone == pc = "idle" /\ last_outcome.kind = "track"

(* The last feeder step made an upstream call that raised 429 *)
RateLimitRaised == IF raised = None THEN FALSE ELSE raised[1].e.k = "rl"

(* C1: after a tick whose playback fetch returned an active track and in
   which nothing failed, what GET / serves is the snapshot the tick built:
   not offline, not rate limited, with the track's title, artist, uri,
   duration, progress and context fields. *)
C1_ReadPathServesTrack ==
    (TrackTickDone /\ ~last_outcome.failed) =>
        LET cur == Deref(srv_ref, server_data)
            data == last_metadata[1]
        IN  /\ cur.is_offline = FALSE
            /\ cur.ratelimit = FALSE
            /\ cur.title = data.title
            /\ cur.artist = data.artist
            /\ cur.uri = data.uri
            /\ cur.duration = data.duration
            /\ cur.progress = data.progress
            /\ cur.context_type = data.context_type
            /\ cur.context_uri = data.context_uri
            /\ cur.context_name = data.context_name

(* C2: whenever an upstream call raises a rate limit with Retry-After d, the
   feeder publishes a snapshot with ratelimit, rl_time = d, not playing and
   not offline and waits; and the step that ends the wait publishes a
   snapshot with no ratelimit, rl_time = 0 and offline. *)
C2_RateLimitRoundTrip ==
    [][/\ (RateLimitRaised' /\ pc' # pc) =>
              IF raised'[1].e.retry = None THEN TRUE
              ELSE /\ pc' = "rl_sleep"
                   /\ pub_step'
                   /\ published'.ratelimit = TRUE
                   /\ published'.rl_time = raised'[1].e.retry[1]
                   /\ published'.is_playing = FALSE
                   /\ published'.is_offline = FALSE
       /\ (pc = "rl_sleep" /\ pc' # "rl_sleep") =>
              /\ pub_step'
              /\ published'.ratelimit = FALSE
              /\ published'.rl_time = 0
              /\ published'.is_offline = TRUE
      ]_vars

(* C3: while the re-authentication procedure started by a failed playback
   fetch is probing or waiting to probe again, the published snapshot is the
   cleared offline one. *)
C3_OfflineBeforeReauth ==
    (pc = "reauth_probe" \/ (pc = "auth_sleep" /\ ret = "reauth_probe")) =>
        (published.is_offline = TRUE /\ AllEmpty(published))

(* C4: every published snapshot that is offline has every other field empty
   or zero. *)
C4_OfflineSnapshotIsEmpty ==
    IF published = Unset THEN TRUE
    ELSE published.is_offline = TRUE => AllEmpty(published)

(* A nothing-playing tick has just cleared the data of an earlier track *)
C4_Witness ==
    /\ pc = "idle"
    /\ last_outcome.kind = "nothing"
    /\ pub_step
    /\ published.is_offline = TRUE

(* C5: a failure-free nothing-playing tick that follows a failure-free
   nothing-playing tick publishes nothing and leaves the published snapshot,
   the shared TrackInfo and the last-known-track bookkeeping unchanged. *)
C5_RepeatedNothingIsNoOp ==
    [][(pc = "fetch" /\ pc' = "idle" /\ nothing_run' >= 2) =>
          /\ ~pub_step'
          /\ UNCHANGED <<published, server_data, srv_ref, last_track_uri,
                         last_is_playing, last_metadata>>
      ]_vars

(* Two failure-free nothing-playing ticks in a row have completed *)
C5_Witness ==
    /\ pc = "idle"
    /\ nothing_run >= 2
    /\ ~pub_step
    /\ published.is_offline = TRUE

(* C6: no exception raised by an upstream call made during a tick (playback
   fetch, name lookup, re-authentication probe) leaves tick(). *)
C6_NothingLeavesTick ==
    exc.at \notin {"fetch", "lookup", "reauth_probe"}

(* C7: at every call position a 429 is handled the same way and is never
   fatal: the rate-limit snapshot is published, the feeder sleeps for the
   published duration, and the end of the sleep publishes the cleared
   snapshot and returns to the call that raised. *)
C7_RateLimitUniform ==
    [][/\ (RateLimitRaised' /\ pc' # pc) =>
              /\ pc' = "rl_sleep"
              /\ ret' = raised'[1].at
              /\ exc'.type = "none"
              /\ pub_step'
              /\ published'.ratelimit = TRUE
              /\ sleep_for' = published'.rl_time
       /\ (pc = "rl_sleep" /\ pc' # "rl_sleep") =>
              /\ pc' = ret
              /\ pub_step'
              /\ published'.is_offline = TRUE
              /\ AllEmpty(published')
      ]_vars

(* The last feeder step made a name lookup that raised something other
   than 429 *)
LookupFailed ==
    IF raised = None THEN FALSE
    ELSE raised[1].at = "lookup" /\ raised[1].e.k # "rl"

(* C8: when the name lookup raises anything but a rate limit, the tick
   returns having published the track with context_name empty and every
   other field taken from the playback response. *)
C8_LookupFailureDegrades ==
    LookupFailed =>
        LET r == pb[1]
            item == r.item[1]
        IN  /\ TrackTickDone
            /\ pub_step
            /\ published.context_name = ""
            /\ published.is_offline = FALSE
            /\ published.ratelimit = FALSE
            /\ published.rl_time = 0
            /\ published.is_playing = Get(r.is_playing, FALSE)
            /\ published.title = Get(item.name, "Unknown")
            /\ published.artist = Join(item.artists)
            /\ published.uri = Get(item.uri, "")
            /\ published.artURL = AlbumImg(item)
            /\ published.duration = Seconds(item.duration_ms)
            /\ published.progress = Seconds(r.progress_ms)
            /\ published.context_type = Get(r.context[1].type, "")
            /\ published.context_uri = Get(r.context[1].uri, <<>>)

(* A playlist lookup has failed on a transport error and the track is out *)
C8_Witness ==
    /\ LookupFailed
    /\ raised[1].e.k = "net"
    /\ pc = "idle"
    /\ published.context_type = "playlist"
    /\ published.context_name = ""
    /\ published.title = "Song A"

(* The current tick's playback response has an active track whose context
   URI contains ":collection" *)
CollectionResponse ==
    IF NothingPlaying(pb) THEN FALSE
    ELSE ContainsCollection(ContextUri(pb))

(* The tick is in, or waiting to repeat, a playlist/album lookup *)
InLookup == pc = "lookup" \/ (pc = "rl_sleep" /\ ret = "lookup")

(* C9 as stated: for every active-track response whose context URI contains
   ":collection", whatever its context type, the tick makes no lookup and
   publishes context_type "user_collection", context_name "Liked Songs". *)
C9_CollectionAnyType ==
    CollectionResponse =>
        /\ ~InLookup
        /\ TrackTickDone =>
              /\ published.context_type = "user_collection"
              /\ published.context_name = "Liked Songs"

(* C9 amended: the same for responses whose context type is neither
   "playlist" nor "album". *)
C9_CollectionOtherTypes ==
    (CollectionResponse /\ ContextType(pb) \notin {"playlist", "album"}) =>
        /\ ~InLookup
        /\ TrackTickDone =>
              /\ published.context_type = "user_collection"
              /\ published.context_name = "Liked Songs"

(* A liked-songs tick has published, the provider having sent no type *)
C9_Witness ==
    /\ CollectionResponse
    /\ pb[1].context[1].type = None
    /\ TrackTickDone
    /\ pub_step
    /\ published.context_name = "Liked Songs"

(* Whole seconds of an optional millisecond value, negative or missing
   values counting as zero *)
ClampedSeconds(ms) ==
    IF ms = None THEN 0
    ELSE IF ms[1] < 0 THEN 0
    ELSE ms[1] \div 1000

(* C10: the published duration and progress of a track are non-negative:
   floor(ms / 1000) for ms >= 0, and 0 for a missing duration_ms or a
   negative value. *)
C10_SecondsClamped ==
    TrackTickDone =>
        /\ published.duration = ClampedSeconds(pb[1].item[1].duration_ms)
        /\ published.progress = ClampedSeconds(pb[1].progress_ms)
        /\ published.duration >= 0
        /\ published.progress >= 0

----------------------------------------------------------------------------
(* Properties of the read path, of recovery and of the published flags *)

(* C11: a GET / at any point returns a snapshot the feeder published in full
   (the latest one or the first one, which has the field defaults), and an
   object that has been handed to the holder is never changed afterwards:
   a step that leaves server_data bound to the handed object leaves its
   fields alone. *)
C11_ReadsWholeSnapshots ==
    [][/\ get_now_playing =>
              (last_read' = published \/ last_read' = DefaultTrackInfo)
       /\ (handed_obj # 0 /\ sd_obj' = handed_obj) =>
              server_data' = server_data
      ]_vars

(* The re-authentication procedure of a tick is probing, or sleeping before
   it probes again *)
InReauth ==
    \/ pc = "reauth_probe"
    \/ (pc \in {"auth_sleep", "rl_sleep"} /\ ret = "reauth_probe")

(* The re-authentication probe has just returned and tick() with it *)
ReauthSucceeded ==
    pc = "idle" /\ raised = None /\ last_outcome.kind = "error" /\ pub_step

(* C12: once a tick has started re-authentication the process never ends
   there, a failed probe is always followed by another probe, and a probe
   that succeeds is followed by a playback fetch. *)
C12_ReauthRetriesForever ==
    /\ [][InReauth => pc' # "crashed"]_vars
    /\ ((pc = "auth_sleep" /\ ret = "reauth_probe") ~> pc = "reauth_probe")
    /\ (ReauthSucceeded ~> pc = "fetch")

C14_NothingPlayingClears ==
    (pc = "idle" /\ last_outcome.kind = "nothing") =>
        (published.is_offline = TRUE /\ AllEmpty(published))

(* C15: a published rate-limit snapshot carries nothing of an earlier
   snapshot: its track and context fields are empty and its duration and
   progress zero. *)
C15_RateLimitSnapshotIsFresh ==
    IF published = Unset THEN TRUE
    ELSE published.ratelimit = TRUE =>
            /\ published.title = ""
            /\ published.artist = ""
            /\ published.uri = ""
            /\ published.artURL = ""
            /\ published.duration = 0
            /\ published.progress = 0
            /\ published.context_type = ""
            /\ published.context_uri = <<>>
            /\ published.context_name = ""

(* C16: in every published snapshot is_offline and ratelimit are not both
   true, ratelimit implies not playing, no ratelimit implies rl_time = 0,
   and is_offline implies not playing. *)
C16_FlagsConsistent ==
    IF published = Unset THEN TRUE
    ELSE /\ ~(published.is_offline /\ published.ratelimit)
         /\ published.ratelimit => ~published.is_playing
         /\ ~published.ratelimit => published.rl_time = 0
         /\ published.is_offline => ~published.is_playing

(* A rate limit has been published over a track that was playing *)
C16_Witness ==
    /\ pc = "rl_sleep"
    /\ pub_step
    /\ published.ratelimit = TRUE
    /\ published.title = "Song A"
    /\ last_is_playing = Some(TRUE)

(* C17: while the rate-limit snapshot is the latest published one the feeder
   is in the rate-limit sleep and at no upstream call. *)
C17_NoCallWhileRateLimited ==
    IF published = Unset THEN TRUE
    ELSE published.ratelimit = TRUE => pc = "rl_sleep"

(* The feeder is waiting out a rate limit raised by a name lookup *)
C17_Witness ==
    /\ pc = "rl_sleep"
    /\ ret = "lookup"
    /\ published.ratelimit = TRUE
    /\ sleep_for = published.rl_time

(* C18: whenever an upstream call raises a rate limit without Retry-After,
   at any call position, the feeder publishes rl_time = 30 and sleeps 30
   seconds. *)
C18_DefaultRetryAfterIs30 ==
    [][(RateLimitRaised' /\ pc' # pc) =>
          IF raised'[1].e.retry # None THEN TRUE
          ELSE /\ pc' = "rl_sleep"
               /\ pub_step'
               /\ published'.rl_time = 30
               /\ sleep_for' = 30
      ]_vars

(* The last feeder step made a playback fetch that raised an unexpected
   exception *)
UnexpectedAtFetch ==
    IF raised = None THEN FALSE
    ELSE raised[1].at = "fetch" /\ raised[1].e.k = "other"

(* C19 as stated: a tick whose playback fetch raised an unexpected exception
   has published nothing. *)
C19_ErrorTickPublishesNothing ==
    (pc = "idle" /\ UnexpectedAtFetch) => ~tick_published

(* C19 amended: when no rate limit was signalled earlier in the tick, the
   tick whose playback fetch raises an unexpected exception returns having
   published nothing, with the published snapshot, the shared TrackInfo, the
   holder, the last-known-track bookkeeping and the client handle as they
   were before the tick. *)
C19_FirstErrorLeavesStateAlone ==
    [][(pc = "fetch" /\ ~tick_failed /\ UnexpectedAtFetch') =>
          /\ pc' = "idle"
          /\ ~pub_step'
          /\ ~tick_published'
          /\ UNCHANGED <<published, server_data, srv_ref, sd_obj, handed_obj,
                         last_track_uri, last_is_playing, last_metadata, sp>>
      ]_vars

(* An unexpected exception has ended a tick and the track published before
   it is still the published snapshot *)
C19_Witness ==
    /\ pc = "idle"
    /\ UnexpectedAtFetch
    /\ ~tick_published
    /\ published.is_offline = FALSE
    /\ published.title = "Song A"
    /\ last_track_uri = Some("spotify:track:A")

====
